---- MODULE Spec2Model ----
(***************************************************************************)
(* Model of the AI-orchestration layer of the LCA backend:                 *)
(*   src/server.js (lines 48-195)      the Gemini client with mock mode,   *)
(*                                     retry loop and canned responses     *)
(*   src/controllers/lcaController.js  suggestParameters,                  *)
(*                                     generateRecommendations,            *)
(*                                     getNodeInsights and their helpers   *)
(*                                                                         *)
(* JavaScript values are tagged records [t, s, m]:  t is the type tag, s   *)
(* the text of a scalar as a sequence of string pieces (a template literal *)
(* is the concatenation of its pieces, the empty string is <<>>), m the    *)
(* elements of an array or the [k, v] members of an object in insertion    *)
(* order.  A text exchanged with the upstream model is a sequence of       *)
(* lexical tokens [k, s].                                                  *)
(***************************************************************************)
EXTENDS Integers, Sequences, FiniteSets, TLC

\* ------------------------------------------------------------------ bounds
MaxRetriesBound == 3
MaxProse == 1

\* ------------------------------------------------------- JavaScript values
JUndef == [t |-> "undef", s |-> <<>>, m |-> <<>>]
JNull == [t |-> "null", s |-> <<>>, m |-> <<>>]
JStr(p) == [t |-> "str", s |-> p, m |-> <<>>]
JNum(a) == [t |-> "num", s |-> <<a>>, m |-> <<>>]
JBool(b) == [t |-> "bool", s |-> <<IF b THEN "true" ELSE "false">>, m |-> <<>>]
JArr(es) == [t |-> "arr", s |-> <<>>, m |-> es]
JObj(ms) == [t |-> "obj", s |-> <<>>, m |-> ms]
Mem(key, val) == [k |-> key, v |-> val]

\* typeof x === 'object'   (true of null, arrays and objects)
TypeofObject(x) == x.t \in {"null", "arr", "obj"}

\* Array.isArray(x)
IsArray(x) == x.t = "arr"

\* ToBoolean(x), as used by !x, x || y and if (x)
Truthy(x) ==
    CASE x.t \in {"undef", "null"} -> FALSE
      [] x.t = "bool" -> x.s = <<"true">>
      [] x.t = "num" -> x.s \notin {<<"0">>, <<"NaN">>}
      [] x.t = "str" -> x.s # <<>>
      [] OTHER -> TRUE

\* x.key for a non-null x: own property of an object, undefined otherwise
\* (the last member with that key is the one JSON.parse keeps)
Get(x, key) ==
    IF x.t = "obj" /\ \E i \in 1..Len(x.m) : x.m[i].k = key
    THEN x.m[CHOOSE i \in 1..Len(x.m) :
                /\ x.m[i].k = key
                /\ \A j \in (i+1)..Len(x.m) : x.m[j].k # key].v
    ELSE JUndef

\* x || y
OrElse(x, y) == IF Truthy(x) THEN x ELSE y

\* `${x}` for a scalar; objects print as [object Object]
ToStr(x) ==
    CASE x.t \in {"str", "num", "bool"} -> x.s
      [] x.t = "null" -> <<"null">>
      [] x.t = "undef" -> <<"undefined">>
      [] x.t = "arr" -> IF x.m = <<>> THEN <<>> ELSE <<"[array]">>
      [] OTHER -> <<"[object Object]">>

\* ------------------------------------------------------------------ tokens
Tok(kind, text) == [k |-> kind, s |-> text]
LBrace == Tok("{", <<>>)
RBrace == Tok("}", <<>>)
LBrack == Tok("[", <<>>)
RBrack == Tok("]", <<>>)
Comma == Tok(",", <<>>)
Colon == Tok(":", <<>>)
Ws == Tok("ws", <<>>)
Word == Tok("word", <<"Sure">>)
Fence == Tok("fence", <<"json">>)

\* the token of a scalar value, as JSON.stringify writes it
ScalarTok(x) ==
    CASE x.t = "str" -> Tok("str", x.s)
      [] x.t = "num" -> Tok("num", x.s)
      [] x.t = "bool" -> Tok("lit", x.s)
      [] OTHER -> Tok("lit", <<"null">>)

RECURSIVE Stringify(_, _)
RECURSIVE StringifyElems(_, _, _)
RECURSIVE StringifyMembers(_, _, _, _)

\* JSON.stringify(x, null, indent ? 2 : undefined): indentation is white space
\* after an opening bracket, a comma and a colon, and before the closing bracket
Stringify(x, indent) ==
    LET pad == IF indent THEN <<Ws>> ELSE <<>> IN
    CASE x.t = "arr" ->
            IF x.m = <<>> THEN <<LBrack, RBrack>>
            ELSE <<LBrack>> \o pad \o StringifyElems(x.m, 1, indent) \o pad \o <<RBrack>>
      [] x.t = "obj" ->
            LET body == StringifyMembers(x.m, 1, indent, TRUE) IN
            IF body = <<>> THEN <<LBrace, RBrace>>
            ELSE <<LBrace>> \o pad \o body \o pad \o <<RBrace>>
      [] OTHER -> <<ScalarTok(x)>>

\* array elements; undefined is written as null
StringifyElems(es, i, indent) ==
    IF i > Len(es) THEN <<>>
    ELSE Stringify(es[i], indent)
         \o (IF i < Len(es)
             THEN <<Comma>> \o (IF indent THEN <<Ws>> ELSE <<>>)
             ELSE <<>>)
         \o StringifyElems(es, i + 1, indent)

\* object members; a member whose value is undefined is left out
StringifyMembers(ms, i, indent, first) ==
    IF i > Len(ms) THEN <<>>
    ELSE IF ms[i].v.t = "undef" THEN StringifyMembers(ms, i + 1, indent, first)
    ELSE (IF first THEN <<>> ELSE <<Comma>> \o (IF indent THEN <<Ws>> ELSE <<>>))
         \o <<Tok("str", <<ms[i].k>>), Colon>>
         \o (IF indent THEN <<Ws>> ELSE <<>>)
         \o Stringify(ms[i].v, indent)
         \o StringifyMembers(ms, i + 1, indent, FALSE)

\* ------------------------------------------------------------- JSON.parse
ParseFail == [ok |-> FALSE, v |-> JUndef, i |-> 0]
ParseOk(val, next) == [ok |-> TRUE, v |-> val, i |-> next]

RECURSIVE SkipWs(_, _)
SkipWs(ts, i) ==
    IF i <= Len(ts) /\ ts[i].k = "ws" THEN SkipWs(ts, i + 1) ELSE i

\* obj[key] = val, keeping the position of an existing key
PutMember(ms, key, val) ==
    IF \E i \in 1..Len(ms) : ms[i].k = key
    THEN [i \in 1..Len(ms) |-> IF ms[i].k = key THEN Mem(key, val) ELSE ms[i]]
    ELSE Append(ms, Mem(key, val))

RECURSIVE ParseValue(_, _)
RECURSIVE ParseElems(_, _, _)
RECURSIVE ParseMembers(_, _, _)

\* one JSON value starting at token i (white space skipped)
ParseValue(ts, i0) ==
    LET i == SkipWs(ts, i0) IN
    IF i > Len(ts) THEN ParseFail
    ELSE CASE ts[i].k = "str" -> ParseOk(JStr(ts[i].s), i + 1)
           [] ts[i].k = "num" -> ParseOk([t |-> "num", s |-> ts[i].s, m |-> <<>>], i + 1)
           [] ts[i].k = "lit" ->
                ParseOk(IF ts[i].s = <<"null">> THEN JNull
                        ELSE JBool(ts[i].s = <<"true">>), i + 1)
           [] ts[i].k = "[" ->
                LET j == SkipWs(ts, i + 1) IN
                IF j <= Len(ts) /\ ts[j].k = "]" THEN ParseOk(JArr(<<>>), j + 1)
                ELSE ParseElems(ts, j, <<>>)
           [] ts[i].k = "{" ->
                LET j == SkipWs(ts, i + 1) IN
                IF j <= Len(ts) /\ ts[j].k = "}" THEN ParseOk(JObj(<<>>), j + 1)
                ELSE ParseMembers(ts, j, <<>>)
           [] OTHER -> ParseFail

\* value (',' value)* ']'
ParseElems(ts, i, acc) ==
    LET r == ParseValue(ts, i) IN
    IF ~r.ok THEN ParseFail
    ELSE LET j == SkipWs(ts, r.i) IN
         IF j > Len(ts) THEN ParseFail
         ELSE IF ts[j].k = "]" THEN ParseOk(JArr(Append(acc, r.v)), j + 1)
         ELSE IF ts[j].k = "," THEN ParseElems(ts, j + 1, Append(acc, r.v))
         ELSE ParseFail

\* string ':' value (',' string ':' value)* '}'
ParseMembers(ts, i0, acc) ==
    LET i == SkipWs(ts, i0) IN
    IF i > Len(ts) \/ ts[i].k # "str" \/ Len(ts[i].s) # 1 THEN ParseFail
    ELSE LET c == SkipWs(ts, i + 1) IN
         IF c > Len(ts) \/ ts[c].k # ":" THEN ParseFail
         ELSE LET r == ParseValue(ts, c + 1) IN
              IF ~r.ok THEN ParseFail
              ELSE LET j == SkipWs(ts, r.i)
                       ms == PutMember(acc, ts[i].s[1], r.v)
                   IN  IF j > Len(ts) THEN ParseFail
                       ELSE IF ts[j].k = "}" THEN ParseOk(JObj(ms), j + 1)
                       ELSE IF ts[j].k = "," THEN ParseMembers(ts, j + 1, ms)
                       ELSE ParseFail

\* JSON.parse(text): [ok, v]; ok = FALSE is a SyntaxError
JSONParse(ts) ==
    LET r == ParseValue(ts, 1) IN
    IF r.ok /\ SkipWs(ts, r.i) > Len(ts)
    THEN [ok |-> TRUE, v |-> r.v]
    ELSE [ok |-> FALSE, v |-> JUndef]

\* --------------------------------------------- response text sanitization
RECURSIVE TrimLeft(_)
TrimLeft(ts) ==
    IF ts # <<>> /\ Head(ts).k = "ws" THEN TrimLeft(Tail(ts)) ELSE ts

RECURSIVE TrimRight(_)
TrimRight(ts) ==
    IF ts # <<>> /\ ts[Len(ts)].k = "ws"
    THEN TrimRight(SubSeq(ts, 1, Len(ts) - 1))
    ELSE ts

\* String.prototype.trim
Trim(ts) == TrimRight(TrimLeft(ts))

IsNotFence(tok) == tok.k # "fence"

\* cleanGeminiResponse: every code-fence marker (with its optional language
\* tag and newline) is removed wherever it stands, then the text is trimmed
cleanGeminiResponse(response) == Trim(SelectSeq(response, IsNotFence))

\* cleanedResponse.match(/\{[\s\S]*\}/): from the first '{' to the last '}'
\* after it; found = FALSE is a null match
BraceMatch(ts) ==
    LET opens == {i \in 1..Len(ts) : ts[i].k = "{"}
        first == CHOOSE i \in opens : \A j \in opens : i <= j
        closes == {i \in 1..Len(ts) : ts[i].k = "}" /\ opens # {} /\ i > first}
        last == CHOOSE i \in closes : \A j \in closes : j <= i
    IN  IF opens = {} \/ closes = {}
        THEN [found |-> FALSE, text |-> <<>>]
        ELSE [found |-> TRUE, text |-> SubSeq(ts, first, last)]

\* a mutation of the parse of getNodeInsights: the brace match is not tried
ParseWithExtraction_strictOnly(raw) == JSONParse(cleanGeminiResponse(raw))

\* the parse of getNodeInsights: JSON.parse of the cleaned text and, when that
\* throws, JSON.parse of the brace match; ok = FALSE when an error is thrown
ParseWithExtraction(raw) ==
    LET cleaned == cleanGeminiResponse(raw)
        strict == JSONParse(cleaned)
        jsonMatch == BraceMatch(cleaned)
    IN  IF strict.ok THEN strict
        ELSE IF jsonMatch.found THEN JSONParse(jsonMatch.text)
        ELSE [ok |-> FALSE, v |-> JUndef]

\* ------------------------------------------------------- fallback synthesis
FallbackRecommendationList ==
    JArr(<< JStr(<<"Review energy sources and consider renewable alternatives">>),
            JStr(<<"Implement water recycling systems in processing operations">>),
            JStr(<<"Consider increasing recycled material inputs">>),
            JStr(<<"Optimize transportation and logistics for efficiency">>),
            JStr(<<"Implement best practices for waste management and reduction">>) >>)

Timestamp == JStr(<<"<ISO timestamp>">>)

\* a mutation of generateFallbackResponse: the summary never names the metal
generateFallbackResponse_genericOnly(type, data) ==
    JObj(<< Mem("lca_summary",
                JStr(<<"This is a fallback analysis for ">> \o <<"metal">>
                     \o <<" production. Due to technical limitations, a detailed AI analysis couldn't be generated.">>)),
            Mem("recommendations", FallbackRecommendationList) >>)

\* generateFallbackResponse(type, data)
generateFallbackResponse(type, data) ==
    IF type = "recommendations"
    THEN LET metalType == OrElse(Get(data, "metalType"), JStr(<<"metal">>)) IN
         JObj(<< Mem("lca_summary",
                     JStr(<<"This is a fallback analysis for ">> \o ToStr(metalType)
                          \o <<" production. Due to technical limitations, a detailed AI analysis couldn't be generated.">>)),
                 Mem("recommendations", FallbackRecommendationList) >>)
    ELSE JObj(<< Mem("message", JStr(<<"Fallback response generated due to processing error">>)),
                 Mem("timestamp", Timestamp) >>)

\* the hardcoded fallback suggestions of suggestParameters
FallbackSuggestions ==
    JObj(<< Mem("energyConsumptionMining", JNum("5000")),
            Mem("waterConsumptionMining", JNum("2000")),
            Mem("oreGrade", JNum("0.5")),
            Mem("recycledInputRate", JNum("10")),
            Mem("recoveryRate", JNum("85")) >>)

\* s.toLowerCase() of one piece of text
LowerPiece(a) ==
    CASE a = "Coal" -> "coal"
      [] a = "FOSSIL fuel" -> "fossil fuel"
      [] a = "Solar" -> "solar"
      [] OTHER -> a

\* piece.includes(w)
PieceIncludes(a, w) ==
    \/ a = w
    \/ w = "fossil" /\ a = "fossil fuel"
    \/ w = "recommendations" /\ a = "see recommendations"
    \/ w = "suggestions" /\ a = "my suggestions"

\* a mutation of LowerIncludes: the text is searched as written
LowerIncludes_caseSensitive(x, w) ==
    \E i \in 1..Len(x.s) : PieceIncludes(x.s[i], w)

\* s.toLowerCase().includes(w) for a string value s
LowerIncludes(x, w) ==
    \E i \in 1..Len(x.s) : PieceIncludes(LowerPiece(x.s[i]), w)

\* generateFallbackNodeInsights throws a TypeError exactly when energySource
\* is truthy and has no toLowerCase method (it is not a string)
FallbackNodeInsightsThrows(nodeType, formData) ==
    /\ nodeType = "Processing"
    /\ Truthy(Get(formData, "energySource"))
    /\ Get(formData, "energySource").t # "str"

\* a mutation of generateFallbackNodeInsights: no case of the switch assigns,
\* so both texts keep their initial empty strings
generateFallbackNodeInsights_noDefault(nodeType, formData) ==
    JObj(<< Mem("circularOpportunities", JStr(<<>>)),
            Mem("environmentalImpacts", JStr(<<>>)) >>)

\* generateFallbackNodeInsights(nodeType, formData), where it does not throw
generateFallbackNodeInsights(nodeType, formData) ==
    LET metalType == ToStr(OrElse(Get(formData, "metalType"), JStr(<<"metal">>)))
        oreGrade == Get(formData, "oreGrade")
        landUse == Get(formData, "landUse")
        energySource == Get(formData, "energySource")
        recoveryRate == Get(formData, "recoveryRate")
        recycledInputRate == Get(formData, "recycledInputRate")
        circularOpportunities ==
            CASE nodeType = "Raw Material" ->
                    IF Truthy(oreGrade)
                    THEN <<"With a ">> \o ToStr(oreGrade)
                         \o <<"% ore grade, optimization of mining techniques and increased use of recycled ">>
                         \o metalType \o <<" could significantly reduce primary resource requirements and waste rock generation.">>
                    ELSE <<"For ">> \o metalType
                         \o <<" extraction, consider increasing use of secondary materials and implementing precision mining techniques to reduce waste generation and land disturbance.">>
              [] nodeType = "Processing" ->
                    IF Truthy(energySource)
                    THEN IF LowerIncludes(energySource, "coal") \/ LowerIncludes(energySource, "fossil")
                         THEN <<"Transitioning from ">> \o ToStr(energySource)
                              \o <<" to renewable energy sources would significantly reduce carbon emissions.">>
                         ELSE <<"Continue optimizing the use of ">> \o ToStr(energySource)
                              \o <<" while implementing heat recovery systems and exploring by-product valorization from processing waste streams.">>
                    ELSE <<"Implement heat recovery systems in ">> \o metalType
                         \o <<" processing to improve energy efficiency and explore by-product recovery options from processing waste streams.">>
              [] nodeType = "Manufacturing" ->
                    IF Truthy(recycledInputRate)
                    THEN <<"Increasing the recycled input rate beyond the current ">> \o ToStr(recycledInputRate)
                         \o <<"% could substantially reduce virgin material requirements.">>
                    ELSE <<"Design ">> \o metalType
                         \o <<" components for disassembly and recycling, and increase the percentage of recycled content in manufacturing new products.">>
              [] OTHER ->
                    <<"Implement circular economy strategies appropriate for this stage of the ">>
                    \o metalType \o <<" life cycle.">>
        environmentalImpacts ==
            CASE nodeType = "Raw Material" ->
                    IF Truthy(landUse)
                    THEN metalType \o <<" extraction with current practices results in approximately ">>
                         \o ToStr(landUse) \o <<" m2/tonne of land disturbance, habitat fragmentation, and potential acid mine drainage if sulfide minerals are present.">>
                    ELSE metalType \o <<" extraction typically results in habitat disruption, energy consumption, and potential acid mine drainage.">>
              [] nodeType = "Processing" ->
                    IF Truthy(recoveryRate)
                    THEN <<"With a ">> \o ToStr(recoveryRate)
                         \o <<"% recovery rate, there's still significant material loss during processing.">>
                    ELSE <<"Processing of ">> \o metalType
                         \o <<" leads to significant energy consumption, greenhouse gas emissions, and potential release of process chemicals into water systems.">>
              [] nodeType = "Manufacturing" ->
                    <<"Manufacturing with ">> \o metalType
                    \o <<" involves energy use for forming and joining processes, and may generate scrap that requires management.">>
              [] OTHER ->
                    <<"Environmental impacts at this stage should be assessed and mitigated according to industry best practices.">>
    IN  JObj(<< Mem("circularOpportunities", JStr(circularOpportunities)),
                Mem("environmentalImpacts", JStr(environmentalImpacts)) >>)

\* ---------------------------------------------------------- prompt building
\* the per-stage allow-list of extractRelevantParameters (metalType is always
\* included); <<>> for a stage the switch does not recognize
StageAllowList(nodeType) ==
    CASE nodeType = "Raw Material" ->
            <<"miningLocation", "oreGrade", "landUse", "energyConsumptionMining", "waterConsumptionMining">>
      [] nodeType = "Processing" ->
            <<"energySource", "energyConsumptionProcessing", "recoveryRate", "waterConsumptionProcessing", "processingRoute">>
      [] nodeType = "Manufacturing" ->
            <<"processingRoute", "recycledInputRate", "manufacturingWaste", "energyConsumptionManufacturing">>
      [] nodeType = "Distribution" ->
            <<"transportMode", "transportDistances", "packaging", "loadFactor">>
      [] nodeType = "Use Phase" ->
            <<"productLifetime", "energyConsumptionUse", "maintenanceFrequency">>
      [] nodeType = "End of Life" ->
            <<"recyclingRate", "reuseRate", "disposalRoute", "wasteGeneration">>
      [] nodeType = "Impact Analysis" ->
            <<"globalWarmingPotential", "waterScarcityFootprint", "cumulativeEnergyDemand", "acidificationPotential", "eutrophicationPotential">>
      [] OTHER -> <<>>

\* a mutation of extractRelevantParameters: every stage takes the default case
extractRelevantParameters_passThrough(nodeType, formData) == formData

\* extractRelevantParameters(nodeType, formData)
extractRelevantParameters(nodeType, formData) ==
    LET allow == StageAllowList(nodeType) IN
    IF allow = <<>> THEN formData
    ELSE JObj(<<Mem("metalType", OrElse(Get(formData, "metalType"), JStr(<<"Unknown metal">>)))>>
              \o [i \in 1..Len(allow) |-> Mem(allow[i], Get(formData, allow[i]))])

\* the candidate parameter names listed in the suggestion prompt
CandidateParameters ==
    {"energy_consumption_kwh", "water_usage_liters", "transport_distance_km",
     "waste_generated_kg", "recycled_content_percentage", "ore_grade_percentage",
     "processing_yield_percentage"}

\* the words of interest that occur in the fixed text of each prompt
StaticWords(kind) ==
    CASE kind = "suggest" -> {"suggestions"}
      [] kind = "recommend" -> {"recommendations"}
      [] OTHER -> {}

\* a prompt: the handler's fixed text with the embedded data
\* (JSON.stringify(data, null, 2), and for a node the stage and metal names)
BuildPrompt(kind, body) ==
    [kind |-> kind,
     embedded |->
        IF kind = "node"
        THEN <<Tok("word", ToStr(OrElse(Get(body.formData, "metalType"), JStr(<<"metal">>))))>>
             \o Stringify(extractRelevantParameters(ToStr(body.nodeType)[1], body.formData), TRUE)
             \o <<Tok("word", ToStr(body.nodeType))>>
        ELSE Stringify(body.formData, TRUE)]

\* prompt.includes(w)
PromptIncludes(prompt, w) ==
    \/ w \in StaticWords(prompt.kind)
    \/ \E i \in 1..Len(prompt.embedded) :
          \E j \in 1..Len(prompt.embedded[i].s) :
             PieceIncludes(prompt.embedded[i].s[j], w)

\* -------------------------------------------------------- the Gemini client
MockReport ==
    JObj(<< Mem("lca_summary", JStr(<<"This is a mock summary for development.">>)),
            Mem("recommendations",
                JArr(<< JStr(<<"Consider increasing recycled material input to reduce primary resource extraction impacts">>),
                        JStr(<<"Implement renewable energy sources to decrease carbon footprint in processing operations">>),
                        JStr(<<"Optimize transportation logistics to minimize fuel consumption and emissions">>),
                        JStr(<<"Improve water recycling systems to reduce freshwater consumption in processing">>),
                        JStr(<<"Invest in more efficient processing technology to increase recovery rates and reduce waste">>) >>)) >>)

MockSuggestions ==
    JObj(<< Mem("energyConsumptionMining", JNum("4500")),
            Mem("waterConsumptionMining", JNum("3200")),
            Mem("oreGrade", JNum("0.8")),
            Mem("recycledInputRate", JNum("15")),
            Mem("globalWarmingPotential", JNum("2800")) >>)

\* generateMockResponse(prompt)
generateMockResponse(prompt) ==
    IF PromptIncludes(prompt, "recommendations") THEN Stringify(MockReport, TRUE)
    ELSE IF PromptIncludes(prompt, "suggestions") THEN Stringify(MockSuggestions, TRUE)
    ELSE Stringify(JObj(<< Mem("message", JStr(<<"This is a mock response for development">>)),
                           Mem("timestamp", Timestamp) >>), FALSE)

CannedReport ==
    JObj(<< Mem("lca_summary", JStr(<<"Unable to analyze with AI at this time.">>)),
            Mem("recommendations",
                JArr(<< JStr(<<"Consider reviewing energy consumption patterns">>),
                        JStr(<<"Evaluate water usage efficiency in processing operations">>),
                        JStr(<<"Look into recycled material input opportunities">>),
                        JStr(<<"Assess transportation efficiency in your supply chain">>),
                        JStr(<<"Please try again later for a more detailed analysis">>) >>)) >>)

\* the text getGeminiResponse returns after the retry loop has ended without a
\* success; error is lastError?.message (undefined when there was no attempt)
CannedResponse(prompt, error) ==
    IF PromptIncludes(prompt, "recommendations") THEN Stringify(CannedReport, FALSE)
    ELSE Stringify(JObj(<< Mem("message", JStr(<<"Fallback response due to API connectivity issues">>)),
                           Mem("error", OrElse(error, JStr(<<"Unknown error">>))) >>), FALSE)

\* Math.pow(2, attempt), the backoff in seconds (delayMs / 1000)
RECURSIVE Pow2(_)
Pow2(n) == IF n <= 0 THEN 1 ELSE 2 * Pow2(n - 1)

\* ------------------------------------------------------- the input universe
\* values a formData field takes in the model
FieldValues ==
    {JNum("0"), JNum("5"), JStr(<<"Coal">>), JStr(<<"Solar">>),
     JStr(<<"see recommendations">>), JBool(TRUE), JBool(FALSE)}

FieldNames ==
    {"metalType", "oreGrade", "landUse", "energySource", "recoveryRate", "recycledInputRate"}

\* formData as the request body may carry it: absent, null, a scalar, an array,
\* the empty object or an object with one field
FormDatas ==
    {JUndef, JNull, JStr(<<"abc">>), JNum("5"), JArr(<<>>), JObj(<<>>)}
    \cup {JObj(<<Mem(k, v)>>) : k \in FieldNames, v \in FieldValues}

NodeTypes ==
    {JUndef, JStr(<<"Raw Material">>), JStr(<<"Processing">>), JStr(<<"Manufacturing">>),
     JStr(<<"Distribution">>), JStr(<<"Smelting">>)}

NodeIds == {JUndef, JStr(<<"node-1">>)}

Requests ==
    {[kind |-> k, body |-> [nodeId |-> JUndef, nodeType |-> JUndef, formData |-> f]] :
        k \in {"suggest", "recommend"}, f \in FormDatas}
    \cup {[kind |-> "node", body |-> [nodeId |-> i, nodeType |-> n, formData |-> f]] :
        i \in NodeIds, n \in NodeTypes, f \in FormDatas}

GoodReport ==
    JObj(<< Mem("lca_summary", JStr(<<"High energy use.">>)),
            Mem("recommendations", JArr(<<JStr(<<"a">>), JStr(<<"b">>)>>)) >>)

GoodInsights ==
    JObj(<< Mem("circularOpportunities", JStr(<<"Reuse slag.">>)),
            Mem("environmentalImpacts", JStr(<<"Emissions.">>)) >>)

\* JSON objects the upstream model may answer with
ReplyObjects ==
    {JObj(<<>>),
     JObj(<<Mem("water_usage_liters", JNum("50000"))>>),
     JObj(<<Mem("oreGrade", JNum("1"))>>),
     GoodReport,
     JObj(<<Mem("lca_summary", JStr(<<>>)), Mem("recommendations", JArr(<<JStr(<<"a">>)>>))>>),
     JObj(<<Mem("lca_summary", JStr(<<"High energy use.">>)), Mem("recommendations", JArr(<<>>))>>),
     JObj(<<Mem("lca_summary", JStr(<<"High energy use.">>))>>),
     JObj(<<Mem("lca_summary", JStr(<<"High energy use.">>)), Mem("recommendations", JStr(<<"a">>))>>),
     GoodInsights,
     JObj(<<Mem("circularOpportunities", JStr(<<"Reuse slag.">>)), Mem("environmentalImpacts", JStr(<<>>))>>),
     JObj(<<Mem("environmentalImpacts", JStr(<<"Emissions.">>))>>),
     JObj(<<Mem("circularOpportunities", JNum("5")), Mem("environmentalImpacts", JStr(<<"Emissions.">>))>>)}

\* JSON values that are not objects
ReplyScalars ==
    {JNull, JStr(<<"text">>), JNum("5"), JBool(TRUE), JArr(<<>>), JArr(<<JNum("1")>>)}

ReplyValues == ReplyObjects \cup ReplyScalars

\* the text of value v, optionally inside a fenced code block, between prose
Wrap(pre, fenced, v, post) ==
    pre \o (IF fenced
            THEN <<Fence>> \o Stringify(v, FALSE) \o <<Ws, Fence>>
            ELSE Stringify(v, FALSE)) \o post

\* texts the upstream model answers with: each value bare and fenced, each
\* object also fenced after prose and fenced between prose; plus a refusal in
\* prose and the empty text
Replies ==
    {Wrap(<<>>, f, v, <<>>) : v \in ReplyValues, f \in BOOLEAN}
    \cup {Wrap(<<Word, Ws>>, TRUE, v, post) : v \in ReplyObjects, post \in {<<>>, <<Ws, Word>>}}
    \cup {<<Word, Ws, Word>>, <<>>}

\* error.message of a failed attempt
ErrorMessages == {JStr(<<"fetch failed">>)}

\* tokens of the prose around an embedded object
ProseToks == {Word, Ws, LBrace, RBrace, LBrack, RBrack}

\* the sequences of at most n prose tokens
RECURSIVE Prose(_)
Prose(n) ==
    IF n = 0 THEN {<<>>}
    ELSE Prose(n - 1) \cup {Append(q, c) : q \in Prose(n - 1), c \in ProseToks}

\* ------------------------------------------------------------------- state
VARIABLES
    env,          \* process.env: [apiKey, USE_MOCK_RESPONSES, MAX_RETRIES]
    pc,           \* where the process, and then the one request it serves, stands
    req,          \* the request: [kind, body]
    prompt,       \* the prompt built by the handler
    attempt,      \* the loop variable of getGeminiResponse
    lastError,    \* lastError?.message
    deadline,     \* the 15 s timer of the attempt in flight: none, armed, expired
    raw,          \* the text getGeminiResponse returned
    source,       \* where raw came from: none, mock, model, canned
    finalReport,  \* generateRecommendations: the report awaiting Report.create
    res,          \* the responses sent, in order
    dispatches,   \* number of model.generateContent calls
    waits,        \* the backoff delays slept, in seconds
    usedFallback, \* a fallback payload was synthesized by the handler
    stored,       \* Report.create succeeded
    pIn,          \* parser check: [v, pre, post], the object and the prose
    pOut,         \* parser check: [done, strict, wrapped]
    calls,        \* concurrent requests: the locals of each handler invocation
    invitations,  \* the Invitation collection: id -> document, or deleted
    teamCalls     \* the invocations of the team routes and their locals

\* the state of the concurrent specifications
concVars == <<calls, invitations, teamCalls>>

vars == <<env, pc, req, prompt, attempt, lastError, deadline, raw, source,
          finalReport, res, dispatches, waits, usedFallback, stored, pIn, pOut, concVars>>

reqVars == <<req, prompt, attempt, lastError, deadline, raw, source,
             finalReport, res, dispatches, waits, usedFallback, stored>>

NoRequest == [kind |-> "none", body |-> [nodeId |-> JUndef, nodeType |-> JUndef, formData |-> JUndef]]
NoPrompt == [kind |-> "none", embedded |-> <<>>]
NoParserInput == [v |-> JUndef, pre |-> <<>>, post |-> <<>>]
NoParserOutput == [done |-> FALSE, strict |-> [ok |-> FALSE, v |-> JUndef], wrapped |-> [ok |-> FALSE, v |-> JUndef]]

\* the MAX_RETRIES environment settings: unset, not a number, or an integer
RetrySettings ==
    {[set |-> FALSE, nan |-> FALSE, n |-> 0], [set |-> TRUE, nan |-> TRUE, n |-> 0]}
    \cup {[set |-> TRUE, nan |-> FALSE, n |-> k] : k \in (-1)..MaxRetriesBound}

DefaultMaxRetries == 2

\* const MAX_RETRIES = parseInt(process.env.MAX_RETRIES || '2')
MAX_RETRIES ==
    IF env.MAX_RETRIES.set THEN [nan |-> env.MAX_RETRIES.nan, n |-> env.MAX_RETRIES.n]
    ELSE [nan |-> FALSE, n |-> DefaultMaxRetries]

\* const USE_MOCK = process.env.USE_MOCK_RESPONSES === 'true'
USE_MOCK == env.USE_MOCK_RESPONSES

\* a < MAX_RETRIES - d   (every comparison with NaN is false)
BelowMaxRetries(a, d) == ~MAX_RETRIES.nan /\ a < MAX_RETRIES.n - d

Response(status, success, payload, warning, reportId) ==
    [status |-> status, success |-> success, payload |-> payload,
     warning |-> warning, reportId |-> reportId]

\* no concurrent invocation is modelled
NoConcurrency ==
    /\ calls = <<>>
    /\ invitations = <<>>
    /\ teamCalls = <<>>

InitRequest ==
    /\ req = NoRequest
    /\ prompt = NoPrompt
    /\ attempt = 0
    /\ lastError = JUndef
    /\ deadline = "none"
    /\ raw = <<>>
    /\ source = "none"
    /\ finalReport = JUndef
    /\ res = <<>>
    /\ dispatches = 0
    /\ waits = <<>>
    /\ usedFallback = FALSE
    /\ stored = FALSE

Init ==
    /\ env \in [apiKey : BOOLEAN, USE_MOCK_RESPONSES : BOOLEAN, MAX_RETRIES : RetrySettings]
    /\ pc = "boot"
    /\ InitRequest
    /\ NoConcurrency
    /\ pIn = NoParserInput
    /\ pOut = NoParserOutput

\* ----------------------------------------------------------------- startup
\* module load of the Gemini service: exit(1) without a key unless mocking
\* a mutation of Startup: the key is required whatever the mock setting
Startup_keyAlwaysRequired ==
    /\ pc = "boot"
    /\ pc' = IF ~env.apiKey THEN "exited" ELSE "idle"
    /\ UNCHANGED <<env, reqVars, pIn, pOut, concVars>>

Startup ==
    /\ pc = "boot"
    /\ pc' = IF ~env.apiKey /\ ~USE_MOCK THEN "exited" ELSE "idle"
    /\ UNCHANGED <<env, reqVars, pIn, pOut, concVars>>

\* ---------------------------------------------------------------- handlers
\* the validation at the head of each handler
suggestParametersInvalid(body) ==
    ~Truthy(body.formData) \/ ~TypeofObject(body.formData)

generateRecommendationsInvalid(body) ==
    ~Truthy(body.formData) \/ ~TypeofObject(body.formData)

getNodeInsightsInvalid(body) ==
    ~Truthy(body.nodeId) \/ ~Truthy(body.nodeType) \/ ~Truthy(body.formData)

InvalidRequest(r) ==
    CASE r.kind = "suggest" -> suggestParametersInvalid(r.body)
      [] r.kind = "recommend" -> generateRecommendationsInvalid(r.body)
      [] OTHER -> getNodeInsightsInvalid(r.body)

\* a request arrives: the handler validates it and answers 400, or builds the
\* prompt and calls getGeminiResponse
Receive ==
    /\ pc = "idle"
    /\ \E r \in Requests :
          /\ req' = r
          /\ IF InvalidRequest(r)
             THEN /\ res' = Append(res, Response(400, FALSE, JUndef, JUndef, FALSE))
                  /\ prompt' = prompt
                  /\ pc' = "done"
             ELSE /\ prompt' = BuildPrompt(r.kind, r.body)
                  /\ res' = res
                  /\ pc' = "call"
    /\ UNCHANGED <<env, attempt, lastError, deadline, raw, source, finalReport,
                   dispatches, waits, usedFallback, stored, pIn, pOut, concVars>>

\* a mutation of Call: the mock setting is not consulted
Call_ignoreMock ==
    /\ pc = "call"
    /\ pc' = "loop"
    /\ attempt' = 0
    /\ lastError' = JUndef
    /\ UNCHANGED <<env, req, prompt, deadline, raw, source, finalReport, res,
                   dispatches, waits, usedFallback, stored, pIn, pOut, concVars>>

\* getGeminiResponse, entry: the mock text at once, or the retry loop
Call ==
    /\ pc = "call"
    /\ IF USE_MOCK
       THEN /\ raw' = generateMockResponse(prompt)
            /\ source' = "mock"
            /\ pc' = "parse"
       ELSE /\ pc' = "loop"
            /\ UNCHANGED <<raw, source>>
    /\ attempt' = 0
    /\ lastError' = JUndef
    /\ UNCHANGED <<env, req, prompt, deadline, finalReport, res, dispatches,
                   waits, usedFallback, stored, pIn, pOut, concVars>>

\* the loop test: another attempt is dispatched under a fresh 15 s timer, or
\* the loop has ended and the canned text is returned
Attempt ==
    /\ pc = "loop"
    /\ IF BelowMaxRetries(attempt, 0)
       THEN /\ dispatches' = dispatches + 1
            /\ deadline' = "armed"
            /\ pc' = "await"
            /\ UNCHANGED <<raw, source>>
       ELSE /\ raw' = CannedResponse(prompt, lastError)
            /\ source' = "canned"
            /\ pc' = "parse"
            /\ UNCHANGED <<dispatches, deadline>>
    /\ UNCHANGED <<env, req, prompt, attempt, lastError, finalReport, res,
                   waits, usedFallback, stored, pIn, pOut, concVars>>

\* the attempt in flight completes with a text: clearTimeout, return the text
UpstreamAnswers ==
    /\ pc = "await"
    /\ \E text \in Replies : raw' = text
    /\ source' = "model"
    /\ deadline' = "none"
    /\ pc' = "parse"
    /\ UNCHANGED <<env, req, prompt, attempt, lastError, finalReport, res,
                   dispatches, waits, usedFallback, stored, pIn, pOut, concVars>>

\* a mutation of UpstreamFails: the backoff is slept after every failure, the
\* last one included
UpstreamFails_alwaysBackoff ==
    /\ pc = "await"
    /\ \E e \in ErrorMessages : lastError' = e
    /\ deadline' = "none"
    /\ pc' = "backoff"
    /\ UNCHANGED <<env, req, prompt, attempt, raw, source, finalReport, res,
                   dispatches, waits, usedFallback, stored, pIn, pOut, concVars>>

\* the attempt in flight throws: back off when attempts remain, else loop on
\* a mutation of UpstreamFails: the next attempt follows a failure at once
UpstreamFails_noBackoff ==
    /\ pc = "await"
    /\ \E e \in ErrorMessages : lastError' = e
    /\ deadline' = "none"
    /\ pc' = "loop"
    /\ attempt' = attempt + 1
    /\ UNCHANGED <<env, req, prompt, raw, source, finalReport, res,
                   dispatches, waits, usedFallback, stored, pIn, pOut, concVars>>

UpstreamFails ==
    /\ pc = "await"
    /\ \E e \in ErrorMessages : lastError' = e
    /\ deadline' = "none"
    /\ IF BelowMaxRetries(attempt, 1)
       THEN pc' = "backoff" /\ attempt' = attempt
       ELSE pc' = "loop" /\ attempt' = attempt + 1
    /\ UNCHANGED <<env, req, prompt, raw, source, finalReport, res,
                   dispatches, waits, usedFallback, stored, pIn, pOut, concVars>>

\* the 15 s timer fires and calls controller.abort(); the controller's signal
\* was never handed to generateContent, so the call stays in flight
DeadlineExpires ==
    /\ pc = "await"
    /\ deadline = "armed"
    /\ deadline' = "expired"
    /\ UNCHANGED <<env, pc, req, prompt, attempt, lastError, raw, source,
                   finalReport, res, dispatches, waits, usedFallback, stored, pIn, pOut, concVars>>

\* the backoff sleep of 2^attempt seconds ends and the loop goes on
BackoffElapses ==
    /\ pc = "backoff"
    /\ waits' = Append(waits, Pow2(attempt))
    /\ attempt' = attempt + 1
    /\ pc' = "loop"
    /\ UNCHANGED <<env, req, prompt, lastError, deadline, raw, source,
                   finalReport, res, dispatches, usedFallback, stored, pIn, pOut, concVars>>

\* ------------------------------------------------- parsing and responding
\* suggestParameters, the try/catch around the parse: the parsed value, or the
\* hardcoded suggestions when JSON.parse throws or the shape test throws
SuggestionsFromText(text) ==
    LET parsed == JSONParse(cleanGeminiResponse(text)) IN
    IF parsed.ok /\ ~(~TypeofObject(parsed.v) \/ IsArray(parsed.v))
    THEN [fallback |-> FALSE, v |-> parsed.v]
    ELSE [fallback |-> TRUE, v |-> FallbackSuggestions]

\* generateRecommendations, the try/catch around the parse: the parsed report,
\* or the fallback report when JSON.parse throws, the property read of null
\* throws, or the shape test throws
ReportFromText(text, fullData) ==
    LET parsed == JSONParse(cleanGeminiResponse(text)) IN
    IF /\ parsed.ok
       /\ parsed.v.t # "null"
       /\ ~(\/ ~TypeofObject(parsed.v)
            \/ ~Truthy(Get(parsed.v, "lca_summary"))
            \/ ~IsArray(Get(parsed.v, "recommendations")))
    THEN [fallback |-> FALSE, v |-> parsed.v]
    ELSE [fallback |-> TRUE, v |-> generateFallbackResponse("recommendations", fullData)]

\* getNodeInsights, the inner try: the parsed insights, or valid = FALSE when
\* a parse throws, the property read of null throws, or a field is falsy
InsightsFromText(text) ==
    LET parsed == ParseWithExtraction(text) IN
    IF /\ parsed.ok
       /\ parsed.v.t # "null"
       /\ ~(\/ ~Truthy(Get(parsed.v, "circularOpportunities"))
            \/ ~Truthy(Get(parsed.v, "environmentalImpacts")))
    THEN [valid |-> TRUE, v |-> parsed.v]
    ELSE [valid |-> FALSE, v |-> JUndef]

\* a mutation of ParseSuggestions: a reply that does not parse is asked again
ParseSuggestions_retryOnMalformed ==
    /\ pc = "parse"
    /\ req.kind = "suggest"
    /\ LET s == SuggestionsFromText(raw) IN
          IF s.fallback /\ source = "model" /\ dispatches < 2
          THEN pc' = "call" /\ UNCHANGED <<usedFallback, res>>
          ELSE /\ usedFallback' = s.fallback
               /\ res' = Append(res, Response(200, TRUE, s.v, JUndef, FALSE))
               /\ pc' = "done"
    /\ UNCHANGED <<env, req, prompt, attempt, lastError, deadline, raw, source,
                   finalReport, dispatches, waits, stored, pIn, pOut, concVars>>

\* suggestParameters after the await: parse and answer
ParseSuggestions ==
    /\ pc = "parse"
    /\ req.kind = "suggest"
    /\ LET s == SuggestionsFromText(raw) IN
          /\ usedFallback' = s.fallback
          /\ res' = Append(res, Response(200, TRUE, s.v, JUndef, FALSE))
    /\ pc' = "done"
    /\ UNCHANGED <<env, req, prompt, attempt, lastError, deadline, raw, source,
                   finalReport, dispatches, waits, stored, pIn, pOut, concVars>>

\* generateRecommendations after the await: parse, then call Report.create
ParseRecommendations ==
    /\ pc = "parse"
    /\ req.kind = "recommend"
    /\ LET r == ReportFromText(raw, req.body.formData) IN
          /\ usedFallback' = r.fallback
          /\ finalReport' = r.v
    /\ pc' = "store"
    /\ UNCHANGED <<env, req, prompt, attempt, lastError, deadline, raw, source,
                   res, dispatches, waits, stored, pIn, pOut, concVars>>

\* Report.create resolves: the report is answered with its id
StoreSucceeds ==
    /\ pc = "store"
    /\ stored' = TRUE
    /\ res' = Append(res, Response(200, TRUE, finalReport, JUndef, TRUE))
    /\ pc' = "done"
    /\ UNCHANGED <<env, req, prompt, attempt, lastError, deadline, raw, source,
                   finalReport, dispatches, waits, usedFallback, pIn, pOut, concVars>>

\* a mutation of StoreFails: the failure of Report.create reaches the outer
\* catch, which answers its own fallback report
StoreFails_outerCatch ==
    /\ pc = "store"
    /\ res' = Append(res, Response(200, TRUE,
                                   generateFallbackResponse("recommendations", req.body.formData),
                                   JStr(<<"Generated using fallback data due to API connectivity issues">>), FALSE))
    /\ pc' = "done"
    /\ UNCHANGED <<env, req, prompt, attempt, lastError, deadline, raw, source,
                   finalReport, dispatches, waits, usedFallback, stored, pIn, pOut, concVars>>

\* a mutation of StoreFails: the failure is logged and nothing is answered
StoreFails_silent ==
    /\ pc = "store"
    /\ pc' = "done"
    /\ UNCHANGED <<env, req, prompt, attempt, lastError, deadline, raw, source,
                   finalReport, res, dispatches, waits, usedFallback, stored, pIn, pOut, concVars>>

\* Report.create rejects: the report is answered with a warning and no id
StoreFails ==
    /\ pc = "store"
    /\ res' = Append(res, Response(200, TRUE, finalReport,
                                   JStr(<<"Report generated but not saved to database">>), FALSE))
    /\ pc' = "done"
    /\ UNCHANGED <<env, req, prompt, attempt, lastError, deadline, raw, source,
                   finalReport, dispatches, waits, usedFallback, stored, pIn, pOut, concVars>>

\* getNodeInsights after the await: the parsed insights; or the fallback
\* insights with a warning; or, when building the fallback throws inside the
\* catch block, the outer catch and its 500
ParseNodeInsights ==
    /\ pc = "parse"
    /\ req.kind = "node"
    /\ LET parsed == InsightsFromText(raw)
           nodeType == ToStr(req.body.nodeType)[1]
       IN  IF parsed.valid
           THEN /\ res' = Append(res, Response(200, TRUE, parsed.v, JUndef, FALSE))
                /\ usedFallback' = FALSE
           ELSE IF FallbackNodeInsightsThrows(nodeType, req.body.formData)
           THEN /\ res' = Append(res, Response(500, FALSE, JUndef, JUndef, FALSE))
                /\ usedFallback' = FALSE
           ELSE /\ res' = Append(res, Response(200, TRUE,
                                   generateFallbackNodeInsights(nodeType, req.body.formData),
                                   JStr(<<"Generated using fallback data">>), FALSE))
                /\ usedFallback' = TRUE
    /\ pc' = "done"
    /\ UNCHANGED <<env, req, prompt, attempt, lastError, deadline, raw, source,
                   finalReport, dispatches, waits, stored, pIn, pOut, concVars>>

\* ------------------------------------------------------------ specification
Next ==
    \/ Startup
    \/ Receive
    \/ Call
    \/ Attempt
    \/ UpstreamAnswers
    \/ UpstreamFails
    \/ DeadlineExpires
    \/ BackoffElapses
    \/ ParseSuggestions
    \/ ParseRecommendations
    \/ StoreSucceeds
    \/ StoreFails
    \/ ParseNodeInsights

Spec == Init /\ [][Next]_vars

\* a step the event loop itself runs: Startup, Call, Attempt, BackoffElapses
\* or one of the parse steps. One of them is enabled exactly when pc is boot,
\* call, loop, backoff or parse, and each of them changes pc. The arrival of a
\* request, the settling of generateContent and the settling of Report.create
\* are the environment's and are not among them.
HandlerStep ==
    /\ pc \in {"boot", "call", "loop", "backoff", "parse"}
    /\ pc' \in {"idle", "exited", "loop", "await", "backoff", "parse", "store", "done"}
    /\ pc' # pc

\* the event loop runs a handler step that stays enabled
FairSpec == Init /\ [][Next]_vars /\ WF_pc(HandlerStep)

\* ---------------------------------------- the parser as a pure function
\* objects whose text is wrapped: the reply objects and one nested object
ParserObjects == ReplyObjects \cup {JObj(<<Mem("a", JObj(<<Mem("b", JNum("1"))>>))>>)}

ParserInit ==
    /\ env = [apiKey |-> TRUE, USE_MOCK_RESPONSES |-> FALSE,
              MAX_RETRIES |-> [set |-> FALSE, nan |-> FALSE, n |-> 0]]
    /\ pc = "parser"
    /\ InitRequest
    /\ NoConcurrency
    /\ pIn \in [v : ParserObjects, pre : Prose(MaxProse), post : Prose(MaxProse)]
    /\ pOut = NoParserOutput

\* the strict text of the object and the same text fenced between the prose,
\* both through the parse of getNodeInsights
ApplyParser ==
    /\ pc = "parser"
    /\ ~pOut.done
    /\ pOut' = [done |-> TRUE,
                strict |-> ParseWithExtraction(Stringify(pIn.v, FALSE)),
                wrapped |-> ParseWithExtraction(Wrap(pIn.pre, TRUE, pIn.v, pIn.post))]
    /\ UNCHANGED <<env, pc, reqVars, pIn, concVars>>

ParserNext == ApplyParser

SpecParser == ParserInit /\ [][ParserNext]_vars

\* -------------------------------- fallback synthesis as a pure function
\* the stages of extractRelevantParameters and one it does not recognize
SynthStages ==
    {"Raw Material", "Processing", "Manufacturing", "Distribution", "Use Phase",
     "End of Life", "Impact Analysis", "Smelting"}

\* parameter values: numbers, strings and booleans
SynthValues ==
    {JNum("0"), JNum("5"), JStr(<<"Coal">>), JStr(<<"coal">>),
     JStr(<<"FOSSIL fuel">>), JStr(<<"Solar">>), JBool(TRUE), JBool(FALSE)}

SynthFields ==
    <<"metalType", "oreGrade", "landUse", "energySource", "recoveryRate", "recycledInputRate">>

\* an object literal cannot name a key twice
DuplicateKeyObjects ==
    {JObj(<<Mem(SynthFields[i], v), Mem(SynthFields[i], w)>>) :
        i \in 1..Len(SynthFields), v \in SynthValues, w \in SynthValues}

\* params: a mapping with no, one or two of the fields
SynthParams ==
    {JObj(<<>>)}
    \cup {JObj(<<Mem(SynthFields[i], v)>>) : i \in 1..Len(SynthFields), v \in SynthValues}
    \cup ((UNION {{JObj(<<Mem(SynthFields[i], v), Mem(SynthFields[j], w)>>) :
                      v \in SynthValues, w \in SynthValues} :
                   i \in 1..Len(SynthFields), j \in 1..Len(SynthFields)})
          \ DuplicateKeyObjects)

\* the fallback a handler builds in its catch block: the hardcoded suggestions,
\* generateFallbackResponse('recommendations', fullData), or
\* generateFallbackNodeInsights(nodeType, formData), which may throw
FallbackFor(kind, stage, params) ==
    CASE kind = "suggest" -> [threw |-> FALSE, v |-> FallbackSuggestions]
      [] kind = "recommend" ->
            [threw |-> FALSE, v |-> generateFallbackResponse("recommendations", params)]
      [] OTHER ->
            IF FallbackNodeInsightsThrows(stage, params)
            THEN [threw |-> TRUE, v |-> JUndef]
            ELSE [threw |-> FALSE, v |-> generateFallbackNodeInsights(stage, params)]

SynthInit ==
    /\ env = [apiKey |-> TRUE, USE_MOCK_RESPONSES |-> FALSE,
              MAX_RETRIES |-> [set |-> FALSE, nan |-> FALSE, n |-> 0]]
    /\ pc = "synth"
    /\ InitRequest
    /\ NoConcurrency
    /\ pIn \in [kind : {"suggest", "recommend", "node"}, stage : SynthStages, params : SynthParams]
    /\ pOut = [done |-> FALSE]

\* the fallback is built twice from the same input, and the stage's
\* parameters are dumped as the prompt of getNodeInsights dumps them
ApplyFallback ==
    /\ pc = "synth"
    /\ ~pOut.done
    /\ pOut' = [done |-> TRUE,
                first |-> FallbackFor(pIn.kind, pIn.stage, pIn.params),
                second |-> FallbackFor(pIn.kind, pIn.stage, pIn.params),
                dump |-> Stringify(extractRelevantParameters(pIn.stage, pIn.params), TRUE)]
    /\ UNCHANGED <<env, pc, reqVars, pIn, concVars>>

SynthNext == ApplyFallback

SpecFallback == SynthInit /\ [][SynthNext]_vars

\* ------------------------------------------- two concurrent AI requests
CallIds == {1, 2}

\* the requests of the two invocations: one rejected, one of each kind
CallRequests ==
    {[kind |-> "suggest", body |-> [nodeId |-> JUndef, nodeType |-> JUndef, formData |-> JUndef]],
     [kind |-> "suggest", body |-> [nodeId |-> JUndef, nodeType |-> JUndef, formData |-> JObj(<<>>)]],
     [kind |-> "recommend", body |-> [nodeId |-> JUndef, nodeType |-> JUndef,
                                     formData |-> JObj(<<Mem("metalType", JStr(<<"Coal">>))>>)]],
     [kind |-> "node", body |-> [nodeId |-> JStr(<<"node-1">>), nodeType |-> JStr(<<"Processing">>),
                                formData |-> JObj(<<Mem("energySource", JStr(<<"Solar">>))>>)]]}

\* the texts and the errors generateContent settles with
CallReplies == {Stringify(GoodReport, FALSE), Stringify(GoodInsights, FALSE), <<Word, Ws, Word>>}
CallErrors == {JStr(<<"fetch failed">>), JStr(<<"quota exceeded">>)}

\* the locals of one handler invocation and of its getGeminiResponse call;
\* heard is the list of what generateContent settled with for this call
NewCall ==
    [pc |-> "new", kind |-> "none", body |-> NoRequest.body, attempt |-> 0,
     lastError |-> JUndef, raw |-> <<>>, source |-> "none", heard |-> <<>>,
     res |-> <<>>]

TwoInit ==
    /\ env \in [apiKey : {TRUE}, USE_MOCK_RESPONSES : BOOLEAN,
                 MAX_RETRIES : {[set |-> FALSE, nan |-> FALSE, n |-> 0]}]
    /\ pc = "two"
    /\ InitRequest
    /\ pIn = NoParserInput
    /\ pOut = NoParserOutput
    /\ calls = [i \in CallIds |-> NewCall]
    /\ invitations = <<>>
    /\ teamCalls = <<>>

TwoUnchanged == UNCHANGED <<env, pc, reqVars, pIn, pOut, invitations, teamCalls>>

\* what suggestParameters answers for a text
AnswerSuggest(text) ==
    Response(200, TRUE, SuggestionsFromText(text).v, JUndef, FALSE)

\* what generateRecommendations answers for a text once Report.create settled
AnswerReport(body, text, saved) ==
    LET r == ReportFromText(text, body.formData) IN
    IF saved THEN Response(200, TRUE, r.v, JUndef, TRUE)
    ELSE Response(200, TRUE, r.v, JStr(<<"Report generated but not saved to database">>), FALSE)

\* what getNodeInsights answers for a text
AnswerNode(body, text) ==
    LET parsed == InsightsFromText(text)
        nodeType == ToStr(body.nodeType)[1]
    IN  IF parsed.valid THEN Response(200, TRUE, parsed.v, JUndef, FALSE)
        ELSE IF FallbackNodeInsightsThrows(nodeType, body.formData)
        THEN Response(500, FALSE, JUndef, JUndef, FALSE)
        ELSE Response(200, TRUE, generateFallbackNodeInsights(nodeType, body.formData),
                      JStr(<<"Generated using fallback data">>), FALSE)

\* a request arrives: 400, or the prompt is built and getGeminiResponse is
\* entered, which returns the mock text at once in mock mode
CallArrive(i) ==
    /\ calls[i].pc = "new"
    /\ \E r \in CallRequests :
          calls' = [calls EXCEPT ![i] =
              IF InvalidRequest(r)
              THEN [@ EXCEPT !.pc = "done", !.kind = r.kind, !.body = r.body,
                             !.res = <<Response(400, FALSE, JUndef, JUndef, FALSE)>>]
              ELSE IF USE_MOCK
              THEN [@ EXCEPT !.pc = "parse", !.kind = r.kind, !.body = r.body,
                             !.raw = generateMockResponse(BuildPrompt(r.kind, r.body)),
                             !.source = "mock"]
              ELSE [@ EXCEPT !.pc = "loop", !.kind = r.kind, !.body = r.body]]
    /\ TwoUnchanged

\* the loop test of this call
CallAttempt(i) ==
    /\ calls[i].pc = "loop"
    /\ calls' = [calls EXCEPT ![i] =
          IF BelowMaxRetries(@.attempt, 0)
          THEN [@ EXCEPT !.pc = "await"]
          ELSE [@ EXCEPT !.pc = "parse", !.source = "canned",
                         !.raw = CannedResponse(BuildPrompt(calls[i].kind, calls[i].body),
                                                calls[i].lastError)]]
    /\ TwoUnchanged

\* generateContent of this call resolves
CallAnswers(i) ==
    /\ calls[i].pc = "await"
    /\ \E text \in CallReplies :
          calls' = [calls EXCEPT ![i] =
              [@ EXCEPT !.pc = "parse", !.source = "model", !.raw = text,
                        !.heard = Append(@, [ok |-> TRUE, v |-> text])]]
    /\ TwoUnchanged

\* a mutation of CallFails: lastError is one module-level variable
CallFails_sharedError(i) ==
    /\ calls[i].pc = "await"
    /\ \E e \in CallErrors :
          calls' = [j \in CallIds |->
              IF j = i
              THEN [calls[j] EXCEPT !.lastError = e,
                        !.heard = Append(@, [ok |-> FALSE, v |-> e]),
                        !.pc = IF BelowMaxRetries(calls[j].attempt, 1) THEN "backoff" ELSE "loop",
                        !.attempt = IF BelowMaxRetries(calls[j].attempt, 1) THEN @ ELSE @ + 1]
              ELSE [calls[j] EXCEPT !.lastError = e]]
    /\ TwoUnchanged

\* generateContent of this call rejects: lastError is a local of the call
CallFails(i) ==
    /\ calls[i].pc = "await"
    /\ \E e \in CallErrors :
          calls' = [calls EXCEPT ![i] =
              [@ EXCEPT !.lastError = e,
                        !.heard = Append(@, [ok |-> FALSE, v |-> e]),
                        !.pc = IF BelowMaxRetries(calls[i].attempt, 1) THEN "backoff" ELSE "loop",
                        !.attempt = IF BelowMaxRetries(calls[i].attempt, 1) THEN @ ELSE @ + 1]]
    /\ TwoUnchanged

\* the backoff timer of this call fires
CallBackoff(i) ==
    /\ calls[i].pc = "backoff"
    /\ calls' = [calls EXCEPT ![i].pc = "loop", ![i].attempt = @ + 1]
    /\ TwoUnchanged

\* the handler parses the text and answers, or awaits Report.create
CallRespond(i) ==
    /\ calls[i].pc = "parse"
    /\ calls' = [calls EXCEPT ![i] =
          CASE @.kind = "suggest" ->
                  [@ EXCEPT !.pc = "done", !.res = <<AnswerSuggest(calls[i].raw)>>]
            [] @.kind = "recommend" -> [@ EXCEPT !.pc = "store"]
            [] OTHER ->
                  [@ EXCEPT !.pc = "done", !.res = <<AnswerNode(calls[i].body, calls[i].raw)>>]]
    /\ TwoUnchanged

\* Report.create of this call settles
CallStore(i) ==
    /\ calls[i].pc = "store"
    /\ \E saved \in BOOLEAN :
          calls' = [calls EXCEPT ![i].pc = "done",
                                 ![i].res = <<AnswerReport(calls[i].body, calls[i].raw, saved)>>]
    /\ TwoUnchanged

TwoNext ==
    \E i \in CallIds :
        \/ CallArrive(i)
        \/ CallAttempt(i)
        \/ CallAnswers(i)
        \/ CallFails(i)
        \/ CallBackoff(i)
        \/ CallRespond(i)
        \/ CallStore(i)

SpecTwo == TwoInit /\ [][TwoNext]_vars

\* ------------------------------------------------ the team invitations
Emails == {"a@x.org", "b@x.org"}

\* the invocations of the team routes that are served, concurrently
TeamCallIds == {1, 2, 3}

\* the ids a resend or cancel request may name
InvitationIds == {1, 2}

TeamRequests ==
    {[op |-> "invite", email |-> e, id |-> 0] : e \in Emails}
    \cup {[op |-> o, email |-> "", id |-> i] : o \in {"resend", "cancel"}, i \in InvitationIds}

NewTeamCall == [pc |-> "new", op |-> "none", email |-> "", id |-> 0, status |-> 0]

\* the document is in the collection
Stored(id) == id \in DOMAIN invitations /\ ~invitations[id].deleted

\* Invitation.findOne({ email, status: 'Pending' }) finds a document
PendingExists(email) ==
    \E i \in DOMAIN invitations :
        Stored(i) /\ invitations[i].email = email /\ invitations[i].status = "Pending"

TeamInit ==
    /\ env = [apiKey |-> TRUE, USE_MOCK_RESPONSES |-> FALSE,
              MAX_RETRIES |-> [set |-> FALSE, nan |-> FALSE, n |-> 0]]
    /\ pc = "team"
    /\ InitRequest
    /\ pIn = NoParserInput
    /\ pOut = NoParserOutput
    /\ calls = <<>>
    /\ invitations = <<>>
    /\ teamCalls = [c \in TeamCallIds |-> NewTeamCall]

TeamUnchanged == UNCHANGED <<env, pc, reqVars, pIn, pOut, calls>>

\* a request reaches one of the three routes
TeamArrive(c) ==
    /\ teamCalls[c].pc = "new"
    /\ \E r \in TeamRequests :
          teamCalls' = [teamCalls EXCEPT ![c] =
                          [pc |-> "start", op |-> r.op, email |-> r.email, id |-> r.id, status |-> 0]]
    /\ UNCHANGED invitations
    /\ TeamUnchanged

\* POST /invite up to its second await: findOne resolves, and the handler
\* answers 400 or goes on to build the invitation and call save()
InviteFind(c) ==
    /\ teamCalls[c].pc = "start"
    /\ teamCalls[c].op = "invite"
    /\ IF PendingExists(teamCalls[c].email)
       THEN teamCalls' = [teamCalls EXCEPT ![c].pc = "done", ![c].status = 400]
       ELSE teamCalls' = [teamCalls EXCEPT ![c].pc = "save"]
    /\ UNCHANGED invitations
    /\ TeamUnchanged

\* POST /invite, save() resolves: the document is inserted with the default
\* status Pending and the handler answers 201
InviteSave(c) ==
    /\ teamCalls[c].pc = "save"
    /\ teamCalls[c].op = "invite"
    /\ invitations' = Append(invitations,
                             [email |-> teamCalls[c].email, status |-> "Pending",
                              sends |-> 1, deleted |-> FALSE])
    /\ teamCalls' = [teamCalls EXCEPT ![c].pc = "done", ![c].status = 201]
    /\ TeamUnchanged

\* POST /invitation/:id/resend, findById resolves: 404, or the loaded document
\* gets a new token and expiry and save() is called
ResendFind(c) ==
    /\ teamCalls[c].pc = "start"
    /\ teamCalls[c].op = "resend"
    /\ IF Stored(teamCalls[c].id)
       THEN teamCalls' = [teamCalls EXCEPT ![c].pc = "save"]
       ELSE teamCalls' = [teamCalls EXCEPT ![c].pc = "done", ![c].status = 404]
    /\ UNCHANGED invitations
    /\ TeamUnchanged

\* POST /invitation/:id/resend, save() settles: the token and expiry are
\* written (no stored status is Expired, so the status is not); when the
\* document was deleted meanwhile save() rejects or updates nothing,
\* depending on the mongoose version
ResendSave(c) ==
    /\ teamCalls[c].pc = "save"
    /\ teamCalls[c].op = "resend"
    /\ IF Stored(teamCalls[c].id)
       THEN /\ invitations' = [invitations EXCEPT ![teamCalls[c].id].sends = @ + 1]
            /\ teamCalls' = [teamCalls EXCEPT ![c].pc = "done", ![c].status = 200]
       ELSE /\ UNCHANGED invitations
            /\ \E st \in {200, 500} :
                  teamCalls' = [teamCalls EXCEPT ![c].pc = "done", ![c].status = st]
    /\ TeamUnchanged

\* DELETE /invitation/:id: findByIdAndDelete is one atomic operation
CancelInvitation(c) ==
    /\ teamCalls[c].pc = "start"
    /\ teamCalls[c].op = "cancel"
    /\ IF Stored(teamCalls[c].id)
       THEN /\ invitations' = [invitations EXCEPT ![teamCalls[c].id].deleted = TRUE]
            /\ teamCalls' = [teamCalls EXCEPT ![c].pc = "done", ![c].status = 200]
       ELSE /\ UNCHANGED invitations
            /\ teamCalls' = [teamCalls EXCEPT ![c].pc = "done", ![c].status = 404]
    /\ TeamUnchanged

TeamNext ==
    \E c \in TeamCallIds :
        \/ TeamArrive(c)
        \/ InviteFind(c)
        \/ InviteSave(c)
        \/ ResendFind(c)
        \/ ResendSave(c)
        \/ CancelInvitation(c)

SpecTeam == TeamInit /\ [][TeamNext]_vars

\* ------------------------------------------------------------------ claims
Responded == pc = "done" /\ Len(res) = 1

\* C1: once validation has passed, every answer is a success (never a 5xx), and
\* suggestParameters answers 400 only on invalid formData and 200 otherwise.
C1_NeverFailsOnceValid ==
    \A i \in 1..Len(res) :
        /\ ~InvalidRequest(req) => res[i].status = 200 /\ res[i].success
        /\ req.kind = "suggest" =>
              res[i].status = (IF suggestParametersInvalid(req.body) THEN 400 ELSE 200)

\* the required input of a request is present and a non-null object
RequiredInputPresent(r) ==
    /\ r.body.formData.t \in {"obj", "arr"}
    /\ r.kind = "node" => Truthy(r.body.nodeId) /\ Truthy(r.body.nodeType)

\* C2: a request whose required input is absent or not a non-null object is
\* answered 400, with no prompt built or dispatched, no fallback synthesized
\* and no report persisted.
C2_InvalidInputRejected ==
    (req.kind # "none" /\ ~RequiredInputPresent(req)) =>
        /\ pc = "done"
        /\ res = <<Response(400, FALSE, JUndef, JUndef, FALSE)>>
        /\ prompt = NoPrompt
        /\ dispatches = 0
        /\ ~usedFallback
        /\ ~stored

C4_DeadlineAbortsAttempt == ~(pc = "await" /\ deadline = "expired")

\* a non-empty string
NonEmptyString(x) == x.t = "str" /\ x.s # <<>>

\* C5: a payload produced by fallback synthesis meets the schema of its kind:
\* suggestions an object; a report with a non-empty summary and a non-empty
\* list of strings; insights with both fields non-empty.
C5_FallbackSchema ==
    LET payload == IF req.kind = "recommend" THEN finalReport ELSE res[1].payload IN
    (usedFallback /\ (req.kind = "recommend" \/ res # <<>>)) =>
        CASE req.kind = "suggest" -> payload.t = "obj"
          [] req.kind = "recommend" ->
                /\ NonEmptyString(Get(payload, "lca_summary"))
                /\ IsArray(Get(payload, "recommendations"))
                /\ Get(payload, "recommendations").m # <<>>
                /\ \A i \in 1..Len(Get(payload, "recommendations").m) :
                      NonEmptyString(Get(payload, "recommendations").m[i])
          [] OTHER ->
                /\ NonEmptyString(Get(payload, "circularOpportunities"))
                /\ NonEmptyString(Get(payload, "environmentalImpacts"))

C5_Witness ==
    /\ Responded
    /\ usedFallback
    /\ req.kind = "node"
    /\ req.body.nodeType = JStr(<<"Distribution">>)
    /\ req.body.formData = JStr(<<"abc">>)

\* the keys of an object value
Keys(x) == {x.m[i].k : i \in 1..Len(x.m)}

\* C6: the suggestions returned by suggestParameters are an object that is
\* empty or has only keys among the candidate names of the prompt.
C6_SuggestionKeysAreCandidates ==
    (req.kind = "suggest" /\ res # <<>> /\ res[1].status = 200) =>
        /\ res[1].payload.t = "obj"
        /\ Keys(res[1].payload) \subseteq CandidateParameters

\* the reply is prose followed by a fenced block holding object v
ProseThenFenced(text, v) == text = Wrap(<<Word, Ws>>, TRUE, v, <<>>)

\* C7: a report reply made of prose and then a fenced block holding an object
\* with a non-empty lca_summary and a recommendations list is returned as the
\* report, without fallback.
C7_FencedReportAccepted ==
    \A v \in ReplyObjects :
        (/\ req.kind = "recommend"
         /\ pc \in {"store", "done"}
         /\ source = "model"
         /\ ProseThenFenced(raw, v)
         /\ Truthy(Get(v, "lca_summary"))
         /\ IsArray(Get(v, "recommendations")))
        => (finalReport = v /\ ~usedFallback)

\* C8 as stated: the strict text and the fenced text between arbitrary prose
\* parse to the same object.
C8_ParserIdempotent_Original ==
    pOut.done => (pOut.strict.ok /\ pOut.wrapped = pOut.strict)

\* the prose holds no brace and no bracket
PlainProse(q) == \A i \in 1..Len(q) : q[i].k \in {"word", "ws"}

\* C8 amended: the strict text and the fenced text parse to the same object
\* whenever the prose before and after the fence holds no brace or bracket.
C8_ParserIdempotent ==
    (pOut.done /\ PlainProse(pIn.pre) /\ PlainProse(pIn.post)) =>
        /\ pOut.strict = [ok |-> TRUE, v |-> pIn.v]
        /\ pOut.wrapped = pOut.strict

C8_Witness ==
    /\ pOut.done
    /\ pIn.pre = <<Word>>
    /\ pIn.post = <<Word>>
    /\ pIn.v = GoodInsights
    /\ pOut.wrapped = [ok |-> TRUE, v |-> GoodInsights]

\* C9: a suggestion reply that parses to something other than a JSON object
\* (array, string, number, boolean, null) yields the static fallback table.
C9_NonObjectIsMalformed ==
    LET parsed == JSONParse(cleanGeminiResponse(raw)) IN
    (req.kind = "suggest" /\ Responded /\ source = "model"
        /\ parsed.ok /\ parsed.v.t # "obj")
    => (res[1].payload = FallbackSuggestions /\ usedFallback)

\* C10: every report of generateRecommendations has a non-empty summary string
\* and a non-empty recommendations sequence.
C10_ReportSchema ==
    (req.kind = "recommend" /\ res # <<>> /\ res[1].status = 200) =>
        /\ NonEmptyString(Get(res[1].payload, "lca_summary"))
        /\ IsArray(Get(res[1].payload, "recommendations"))
        /\ Get(res[1].payload, "recommendations").m # <<>>


\* C11: every insights payload of getNodeInsights has circularOpportunities and
\* environmentalImpacts as non-empty strings; a reply lacking either is
\* replaced by the fallback insights.
C11_InsightsSchema ==
    (req.kind = "node" /\ res # <<>> /\ res[1].status = 200) =>
        /\ NonEmptyString(Get(res[1].payload, "circularOpportunities"))
        /\ NonEmptyString(Get(res[1].payload, "environmentalImpacts"))

\* C12: the answer of generateRecommendations carries reportId exactly when
\* Report.create succeeded; when it failed the answer is still a success with
\* the computed report, a warning and no reportId.
C12_ReportIdIffStored ==
    (req.kind = "recommend" /\ res # <<>> /\ res[1].status = 200) =>
        /\ res[1].reportId <=> stored
        /\ res[1].success
        /\ res[1].payload = finalReport
        /\ finalReport = ReportFromText(raw, req.body.formData).v
        /\ ~stored => Truthy(res[1].warning)

C12_Witness ==
    /\ Responded
    /\ req.kind = "recommend"
    /\ ~stored
    /\ res[1].status = 200
    /\ ~res[1].reportId
    /\ res[1].payload = GoodReport

\* C13: an answer carries a warning exactly when its payload came from
\* fallback synthesis or storing the report failed.
C13_WarningIffDegraded ==
    (res # <<>> /\ res[1].status = 200) =>
        (Truthy(res[1].warning) <=>
            (usedFallback \/ (req.kind = "recommend" /\ ~stored)))


\* C14: with mock mode on, getGeminiResponse never invokes the model client:
\* no attempt is dispatched, no backoff is slept, and the text it returns is a
\* canned JSON text produced at once, for every prompt.
C14_MockNeverDispatches ==
    USE_MOCK =>
        /\ dispatches = 0
        /\ waits = <<>>
        /\ pc \notin {"loop", "await", "backoff"}
        /\ source \in {"none", "mock"}
        /\ source = "mock" =>
              /\ raw = generateMockResponse(prompt)
              /\ JSONParse(raw).ok

C14_Witness ==
    /\ USE_MOCK
    /\ Responded
    /\ source = "mock"
    /\ res[1].status = 200
    /\ dispatches = 0

\* C15: in mock mode a suggestion request is answered with the fixed mock
\* suggestion object, without fallback, whatever formData contains.
C15_MockSuggestionsFixed ==
    (USE_MOCK /\ req.kind = "suggest" /\ res # <<>> /\ res[1].status = 200) =>
        /\ raw = Stringify(MockSuggestions, TRUE)
        /\ res[1].payload = MockSuggestions
        /\ ~usedFallback

\* C16: once every attempt has failed, the canned text returned by
\* getGeminiResponse parses and passes the validation of the request kind that
\* issued the prompt, for each of the three kinds.
C16_CannedPassesValidation ==
    (source = "canned" /\ dispatches >= 1) =>
        /\ req.kind = "suggest" => ~SuggestionsFromText(raw).fallback
        /\ req.kind = "recommend" => ~ReportFromText(raw, req.body.formData).fallback
        /\ req.kind = "node" => InsightsFromText(raw).valid

C18_AnswerDespiteStore ==
    (pc = "store") ~> (res # <<>> /\ res[1].payload = finalReport)

\* C19: the attempts of one getGeminiResponse call are strictly sequential: an
\* attempt is dispatched only when none is in flight and every earlier attempt
\* has failed and had its backoff slept; once an attempt has answered, its text
\* is what is returned and no attempt or wait follows.
C19_AttemptsSequential ==
    [][ /\ (dispatches' # dispatches) =>
              /\ dispatches' = dispatches + 1
              /\ pc = "loop" /\ pc' = "await"
              /\ deadline = "none"
              /\ Len(waits) = dispatches
              /\ dispatches > 0 => lastError # JUndef
        /\ (waits' # waits) =>
              /\ pc = "backoff"
              /\ Len(waits') = dispatches
              /\ lastError # JUndef
        /\ (pc = "await" /\ pc' = "parse") => source' = "model"
        /\ (source = "model") =>
              /\ dispatches' = dispatches
              /\ waits' = waits
              /\ raw' = raw
              /\ source' = source
              /\ pc' \notin {"loop", "await", "backoff"}
      ]_vars

C19_Witness ==
    /\ Responded
    /\ source = "model"
    /\ dispatches = 2
    /\ waits = <<1>>

\* C20: a malformed reply is never retried: getGeminiResponse is called once
\* per validated request, and from the parse onward the handler only falls
\* back or answers, with no further dispatch.
C20_MalformedNotRetried ==
    [][ /\ (pc' = "call") => (pc = "idle")
        /\ (pc \in {"parse", "store", "done"}) =>
              /\ pc' \in {"parse", "store", "done"}
              /\ dispatches' = dispatches
              /\ waits' = waits
              /\ raw' = raw
              /\ source' = source
        /\ (pc = "parse" /\ usedFallback') => pc' \in {"store", "done"}
      ]_vars

C20_Witness ==
    /\ Responded
    /\ usedFallback
    /\ source = "model"
    /\ dispatches = 1
    /\ res[1].status = 200


\* the fallback of a node request has been built from the input
Synthesized == pc = "synth" /\ pOut.done

\* C21: fallback synthesis is total and deterministic: for every request kind,
\* stage and params of numbers, strings and booleans it returns a payload
\* without raising, and a second call returns the same payload.
C21_FallbackTotal ==
    Synthesized =>
        /\ ~pOut.first.threw
        /\ pOut.first.v.t = "obj"
        /\ pOut.second = pOut.first

\* the insights of the switch's default case
GenericInsights(params) == generateFallbackNodeInsights("Smelting", params)

\* C22: each of the seven stages the prompt builder recognizes has its own
\* fallback template; only an unrecognized stage gets the generic one.
C22_EveryStageHasTemplate ==
    (Synthesized /\ pIn.kind = "node" /\ ~pOut.first.threw) =>
        (pOut.first.v = GenericInsights(pIn.params) <=> StageAllowList(pIn.stage) = <<>>)


\* the parameters a stage's template reads
StageKeyParams(stage) ==
    CASE stage = "Raw Material" -> {"oreGrade", "landUse"}
      [] stage = "Processing" -> {"energySource", "recoveryRate"}
      [] stage = "Manufacturing" -> {"recycledInputRate"}
      [] OTHER -> {}

HasKey(params, k) == \E i \in 1..Len(params.m) : params.m[i].k = k

\* the pieces of both insight texts
TextPieces(v) ==
    Get(v, "circularOpportunities").s \o Get(v, "environmentalImpacts").s

\* C23: for a stage with a template, every key parameter of the stage that is
\* present in params, the values 0 and false included, appears literally in
\* the fallback text.
C23_PresentValueIsQuoted ==
    (Synthesized /\ pIn.kind = "node" /\ ~pOut.first.threw) =>
        \A k \in StageKeyParams(pIn.stage) :
            HasKey(pIn.params, k) =>
                \E i \in 1..Len(TextPieces(pOut.first.v)) :
                    <<TextPieces(pOut.first.v)[i]>> = ToStr(Get(pIn.params, k))

\* energySource is a string with coal or fossil in it, in some letter case
NamesFossilSource(x) ==
    x.t = "str" /\ x.s \in {<<"Coal">>, <<"coal">>, <<"FOSSIL fuel">>}

\* C24: for stage Processing, when energySource is a string containing coal or
\* fossil in any letter case, the fallback circularOpportunities names that
\* energySource and states transitioning from it to renewable energy sources.
C24_FossilSourceNamed ==
    (/\ Synthesized
     /\ pIn.kind = "node"
     /\ pIn.stage = "Processing"
     /\ NamesFossilSource(Get(pIn.params, "energySource"))) =>
        /\ ~pOut.first.threw
        /\ Get(pOut.first.v, "circularOpportunities") =
              JStr(<<"Transitioning from ">> \o Get(pIn.params, "energySource").s
                   \o <<" to renewable energy sources would significantly reduce carbon emissions.">>)

C24_Witness ==
    /\ Synthesized
    /\ pIn.kind = "node"
    /\ pIn.stage = "Processing"
    /\ Get(pIn.params, "energySource") = JStr(<<"FOSSIL fuel">>)
    /\ Get(pOut.first.v, "circularOpportunities").s[2] = "FOSSIL fuel"


\* the text holds no JSON: only words, white space and fence markers
NoJson(text) == \A i \in 1..Len(text) : text[i].k \in {"word", "ws", "fence"}

\* the answer of a report request whose upstream text held no JSON
NoJsonReportAnswered ==
    /\ req.kind = "recommend"
    /\ source = "model"
    /\ NoJson(raw)
    /\ res # <<>>
    /\ res[1].status = 200

\* the fallback summary naming the given metal
SummaryFor(name) ==
    JStr(<<"This is a fallback analysis for ">> \o name
         \o <<" production. Due to technical limitations, a detailed AI analysis couldn't be generated.">>)

\* C25 as stated: the summary names metalType whenever formData has it, and
\* 'metal' otherwise.
C25_FallbackReport_Original ==
    NoJsonReportAnswered =>
        LET fd == req.body.formData
            present == fd.t = "obj" /\ HasKey(fd, "metalType")
        IN  /\ usedFallback
            /\ Get(res[1].payload, "lca_summary") =
                  SummaryFor(IF present THEN ToStr(Get(fd, "metalType")) ELSE <<"metal">>)
            /\ Get(res[1].payload, "recommendations") = FallbackRecommendationList

\* C25: when the upstream text for a report holds no JSON the answer is the
\* fallback report: its summary names metalType when that is truthy and the
\* word 'metal' otherwise, and its recommendations are the same fixed list.
C25_FallbackReport ==
    NoJsonReportAnswered =>
        LET mt == Get(req.body.formData, "metalType")
        IN  /\ usedFallback
            /\ Get(res[1].payload, "lca_summary") =
                  SummaryFor(IF Truthy(mt) THEN ToStr(mt) ELSE <<"metal">>)
            /\ Get(res[1].payload, "recommendations") = FallbackRecommendationList

C25_Witness ==
    /\ NoJsonReportAnswered
    /\ Responded
    /\ Get(req.body.formData, "metalType") = JStr(<<"Coal">>)
    /\ Get(res[1].payload, "lca_summary").s[2] = "Coal"


\* the names on a stage's allow-list
AllowSet(stage) == {StageAllowList(stage)[i] : i \in 1..Len(StageAllowList(stage))}

\* the object the dump in the prompt reads as
Dumped == JSONParse(pOut.dump).v

NodeDumped == Synthesized /\ pIn.kind = "node"

\* C26 as stated: the dump holds exactly the allow-listed keys that params has.
C26_StageProjection_Original ==
    NodeDumped =>
        IF AllowSet(pIn.stage) = {}
        THEN Dumped = pIn.params
        ELSE /\ Keys(Dumped) = Keys(pIn.params) \cap AllowSet(pIn.stage)
             /\ \A k \in Keys(Dumped) : Get(Dumped, k) = Get(pIn.params, k)

\* C26: the parameters dumped into a node prompt are metalType (or 'Unknown
\* metal' when it is absent or falsy) and the keys of the stage's allow-list
\* that params has; other keys are dropped, absent ones are omitted, and an
\* unrecognized stage passes params through unchanged.
C26_StageProjection ==
    NodeDumped =>
        IF AllowSet(pIn.stage) = {}
        THEN Dumped = pIn.params
        ELSE /\ Keys(Dumped) = {"metalType"} \cup (Keys(pIn.params) \cap AllowSet(pIn.stage))
             /\ \A k \in Keys(Dumped) \ {"metalType"} : Get(Dumped, k) = Get(pIn.params, k)
             /\ Get(Dumped, "metalType") =
                   (IF Truthy(Get(pIn.params, "metalType"))
                    THEN Get(pIn.params, "metalType") ELSE JStr(<<"Unknown metal">>))

C26_Witness ==
    /\ NodeDumped
    /\ pIn.stage = "Raw Material"
    /\ Keys(pIn.params) = {"energySource", "oreGrade"}
    /\ Keys(Dumped) = {"metalType", "oreGrade"}


\* C28: an invocation of a handler sends exactly one response on every control
\* path: none while the handler is still running, one once it has returned,
\* and a response is sent by the step that ends the handler.
C28_ExactlyOneResponse ==
    /\ Len(res) <= 1
    /\ pc = "done" => Len(res) = 1
    /\ pc \in {"idle", "call", "loop", "await", "backoff", "parse", "store"} => res = <<>>

C28_Witness ==
    /\ Responded
    /\ req.kind = "node"
    /\ res[1].status = 500
    /\ source = "model"

\* C29: outside mock mode a canned degraded text is returned only after at
\* least one attempt was dispatched, whatever MAX_RETRIES is set to.
C29_AttemptBeforeCanned ==
    (~USE_MOCK /\ source = "canned") => dispatches >= 1


\* the stored invitations of an email with status Pending
PendingFor(e) ==
    {i \in DOMAIN invitations :
        Stored(i) /\ invitations[i].email = e /\ invitations[i].status = "Pending"}

\* C30: after any interleaving of invite, resend and cancel requests there is
\* at most one stored Pending invitation per email address.
C30_OnePendingPerEmail ==
    \A e \in Emails : Cardinality(PendingFor(e)) <= 1


\* the text getGeminiResponse returns for a call, from the call's own request
\* and from what generateContent settled with for this call
OwnText(c) ==
    LET prompt0 == BuildPrompt(c.kind, c.body)
        n == Len(c.heard)
    IN  IF USE_MOCK THEN generateMockResponse(prompt0)
        ELSE IF n > 0 /\ c.heard[n].ok THEN c.heard[n].v
        ELSE CannedResponse(prompt0, IF n = 0 THEN JUndef ELSE c.heard[n].v)

\* the answers the call's own request and own replies allow, one for each way
\* its own Report.create can settle
OwnAnswers(c) ==
    CASE InvalidRequest([kind |-> c.kind, body |-> c.body]) ->
            {Response(400, FALSE, JUndef, JUndef, FALSE)}
      [] c.kind = "suggest" -> {AnswerSuggest(OwnText(c))}
      [] c.kind = "recommend" -> {AnswerReport(c.body, OwnText(c), saved) : saved \in BOOLEAN}
      [] OTHER -> {AnswerNode(c.body, OwnText(c))}

OwnInputsOnly ==
    \A i \in CallIds :
        calls[i].pc = "done" =>
            /\ Len(calls[i].res) = 1
            /\ calls[i].res[1] \in OwnAnswers(calls[i])

\* C27: two concurrent requests do not interfere: whatever the interleaving,
\* the answer of each is determined by its own request and its own upstream
\* replies, and the startup configuration is never written.
C27_NoInterference ==
    []OwnInputsOnly /\ [][env' = env]_vars

C27_Witness ==
    /\ calls[1].pc = "done" /\ calls[2].pc = "done"
    /\ calls[1].kind = "suggest" /\ calls[2].kind = "node"
    /\ calls[1].source = "canned" /\ calls[2].source = "canned"
    /\ calls[1].lastError # calls[2].lastError
    /\ calls[1].heard[1].v = calls[2].lastError

====
